---- MODULE Spec2Model ----
(***************************************************************************)
(* Model of the turing-machine-vm interpreter (src/src/main.rs).           *)
(*                                                                         *)
(* A memory cell is a Rust String; it is modelled as a sequence of         *)
(* one-character strings, so that trim, split_whitespace, starts_with,     *)
(* the slice [1..], str::parse::<i64> and i64::to_string are computed on   *)
(* the characters as the code computes them.                               *)
(*                                                                         *)
(* An i64 is modelled as a record [neg, mag]: its sign and the decimal     *)
(* digits of its magnitude without leading zeros (zero is [FALSE, <<0>>]). *)
(* The full 64-bit range is kept: I64Max and I64Min are the real limits.   *)
(***************************************************************************)
EXTENDS Integers, Sequences, FiniteSets, TLC

VARIABLES pc, memory, overflow_checks, mode, steps, i, runs, last, image

vars == <<pc, memory, overflow_checks, mode, steps, i, runs, last, image>>

(***************************************************************************)
(* Bounds of the model.                                                    *)
(***************************************************************************)
\* number of cells of the loaded memory image
MemLen == 3
\* largest step count typed at the prompt
MaxSteps == 3
\* number of prompts answered before the model stops reading input
MaxRuns == 2

(***************************************************************************)
(* Characters and text.                                                    *)
(***************************************************************************)
DigitChars == <<"0", "1", "2", "3", "4", "5", "6", "7", "8", "9">>

IsDigitChar(c) == \E d \in 1..10 : DigitChars[d] = c

DigitVal(c) == (CHOOSE d \in 1..10 : DigitChars[d] = c) - 1

\* char::is_whitespace restricted to the characters of the model
IsWhitespace(c) == c \in {" ", "\t"}

RECURSIVE trim_start(_)
trim_start(s) ==
    IF s # <<>> /\ IsWhitespace(Head(s)) THEN trim_start(Tail(s)) ELSE s

RECURSIVE trim_end(_)
trim_end(s) ==
    IF s # <<>> /\ IsWhitespace(s[Len(s)])
    THEN trim_end(SubSeq(s, 1, Len(s) - 1))
    ELSE s

\* str::trim
trim(s) == trim_end(trim_start(s))

\* the first token of a text that starts with a non-whitespace character
RECURSIVE first_token(_)
first_token(s) ==
    IF s = <<>> \/ IsWhitespace(Head(s)) THEN <<>>
    ELSE <<Head(s)>> \o first_token(Tail(s))

\* str::split_whitespace: the maximal runs of non-whitespace characters
RECURSIVE split_whitespace(_)
split_whitespace(s) ==
    LET t == trim_start(s)
    IN IF t = <<>> THEN <<>>
       ELSE LET w == first_token(t)
            IN <<w>> \o split_whitespace(SubSeq(t, Len(w) + 1, Len(t)))

\* str::starts_with for a one-character pattern
starts_with(s, c) == s # <<>> /\ Head(s) = c

(***************************************************************************)
(* i64 values.                                                             *)
(***************************************************************************)
I64(n, m) == [neg |-> n, mag |-> m]

Zero == I64(FALSE, <<0>>)

\* i64::MAX = 9223372036854775807 and i64::MIN = -9223372036854775808
I64MaxMag == <<9,2,2,3,3,7,2,0,3,6,8,5,4,7,7,5,8,0,7>>
I64MinMag == <<9,2,2,3,3,7,2,0,3,6,8,5,4,7,7,5,8,0,8>>
I64Max == I64(FALSE, I64MaxMag)
I64Min == I64(TRUE, I64MinMag)

RECURSIVE StripZeros(_)
StripZeros(d) ==
    IF Len(d) > 1 /\ Head(d) = 0 THEN StripZeros(Tail(d)) ELSE d

\* a < b on magnitudes without leading zeros
MagLess(a, b) ==
    \/ Len(a) < Len(b)
    \/ /\ Len(a) = Len(b)
       /\ \E k \in 1..Len(a) :
             /\ a[k] < b[k]
             /\ \A j \in 1..(k - 1) : a[j] = b[j]

RECURSIVE MagInc(_)
MagInc(d) ==
    IF d = <<>> THEN <<1>>
    ELSE IF d[Len(d)] < 9
         THEN [d EXCEPT ![Len(d)] = @ + 1]
         ELSE MagInc(SubSeq(d, 1, Len(d) - 1)) \o <<0>>

\* d - 1 for a magnitude d >= 1
RECURSIVE MagDecRaw(_)
MagDecRaw(d) ==
    IF d[Len(d)] > 0
    THEN [d EXCEPT ![Len(d)] = @ - 1]
    ELSE MagDecRaw(SubSeq(d, 1, Len(d) - 1)) \o <<9>>

MagDec(d) == StripZeros(MagDecRaw(d))

RECURSIVE NatToMag(_)
NatToMag(n) ==
    IF n < 10 THEN <<n>> ELSE NatToMag(n \div 10) \o <<n % 10>>

RECURSIVE MagToNat(_)
MagToNat(d) ==
    IF d = <<>> THEN 0
    ELSE MagToNat(SubSeq(d, 1, Len(d) - 1)) * 10 + d[Len(d)]

\* the i64 of a small model integer
FromInt(n) == IF n < 0 THEN I64(TRUE, NatToMag(-n)) ELSE I64(FALSE, NatToMag(n))

\* v + 1 and v - 1 in the integers (no width)
Succ1(v) ==
    IF ~v.neg THEN I64(FALSE, MagInc(v.mag))
    ELSE LET m == MagDec(v.mag)
         IN IF m = <<0>> THEN Zero ELSE I64(TRUE, m)

Pred1(v) ==
    IF v.neg THEN I64(TRUE, MagInc(v.mag))
    ELSE IF v.mag = <<0>> THEN I64(TRUE, <<1>>)
    ELSE I64(FALSE, MagDec(v.mag))

\* str::parse::<i64>: an optional sign, then one or more decimal digits, and
\* the value must fit an i64; anything else is Err
parse_i64(s) ==
    IF s = <<>> THEN [ok |-> FALSE, val |-> Zero]
    ELSE LET signed == Head(s) \in {"+", "-"}
             body == IF signed THEN Tail(s) ELSE s
             neg == Head(s) = "-"
         IN IF body = <<>> \/ \E k \in 1..Len(body) : ~IsDigitChar(body[k])
            THEN [ok |-> FALSE, val |-> Zero]
            ELSE LET mag == StripZeros([k \in 1..Len(body) |-> DigitVal(body[k])])
                 IN IF neg
                    THEN IF MagLess(I64MinMag, mag)
                         THEN [ok |-> FALSE, val |-> Zero]
                         ELSE [ok |-> TRUE,
                               val |-> IF mag = <<0>> THEN Zero ELSE I64(TRUE, mag)]
                    ELSE IF MagLess(I64MaxMag, mag)
                         THEN [ok |-> FALSE, val |-> Zero]
                         ELSE [ok |-> TRUE, val |-> I64(FALSE, mag)]

\* a formatting that always writes the sign (format "{:+}")
to_string_signed(v) ==
    (IF v.neg THEN <<"-">> ELSE <<"+">>)
        \o [k \in 1..Len(v.mag) |-> DigitChars[v.mag[k] + 1]]

\* i64::to_string
to_string(v) ==
    (IF v.neg THEN <<"-">> ELSE <<>>)
        \o [k \in 1..Len(v.mag) |-> DigitChars[v.mag[k] + 1]]

(***************************************************************************)
(* Instruction::parse.                                                     *)
(***************************************************************************)
W_exit == <<"e", "x", "i", "t">>
W_succ == <<"s", "u", "c", "c">>
W_beqz_pred == <<"b", "e", "q", "z", "-", "p", "r", "e", "d">>

None == [tag |-> "None"]
Exit == [tag |-> "Exit"]
Succ(target, indirect) == [tag |-> "Succ", target |-> target, indirect |-> indirect]
BeqzPred(test, test_indirect, jump, jump_indirect) ==
    [tag |-> "BeqzPred", test |-> test, test_indirect |-> test_indirect,
     jump |-> jump, jump_indirect |-> jump_indirect]

\* the sigil test the decoder applies to an operand token: "&" is indirect,
\* "$" is direct, and the rest of the token is kept as text, unexamined
operand(tok) ==
    IF starts_with(tok, "&") THEN [ok |-> TRUE, val |-> Tail(tok), indirect |-> TRUE]
    ELSE IF starts_with(tok, "$") THEN [ok |-> TRUE, val |-> Tail(tok), indirect |-> FALSE]
    ELSE [ok |-> FALSE, val |-> <<>>, indirect |-> FALSE]

parse(text) ==
    LET s == trim(text)
        parts == split_whitespace(s)
    IN IF s = W_exit THEN Exit
       ELSE IF Len(parts) >= 2 /\ parts[1] = W_succ
       THEN LET t == operand(parts[2])
            IN IF t.ok THEN Succ(t.val, t.indirect) ELSE None
       ELSE IF Len(parts) >= 3 /\ parts[1] = W_beqz_pred
       THEN LET t == operand(parts[2])
                j == operand(parts[3])
            IN IF ~t.ok THEN None
               ELSE IF ~j.ok THEN None
               ELSE BeqzPred(t.val, t.indirect, j.val, j.indirect)
       ELSE None

(***************************************************************************)
(* The VM.  An operation that can panic returns a record whose field       *)
(* outcome names the panic; the names are those of the error taxonomy:     *)
(*   OutOfBounds             "Memory access out of bounds: ..."            *)
(*   MalformedAddress        "Invalid address: ..."                        *)
(*   MalformedIndirectTarget "Expected integer at address ..."             *)
(*   ExecutingData           "Trying to execute data value ..."            *)
(*   InvalidInstruction      "Invalid instruction at PC=..."               *)
(*   Overflow                "attempt to add/subtract with overflow"       *)
(* and "true" / "false" are the values execute_instruction returns.        *)
(***************************************************************************)
\* check_bounds without the test addr < 0
check_bounds_no_lower(mem, addr) == MagLess(addr.mag, NatToMag(Len(mem)))

\* TRUE when the check passes, FALSE when it panics
check_bounds(mem, addr) ==
    ~(addr.neg \/ ~MagLess(addr.mag, NatToMag(Len(mem))))

\* memory[addr as usize], for an address that passed check_bounds
Cell(mem, addr) == mem[MagToNat(addr.mag) + 1]

\* a write that inserts the text before the addressed cell (Vec::insert)
Store_inserts(mem, addr, text) ==
    SubSeq(mem, 1, MagToNat(addr.mag)) \o <<text>>
       \o SubSeq(mem, MagToNat(addr.mag) + 1, Len(mem))

Store(mem, addr, text) == [mem EXCEPT ![MagToNat(addr.mag) + 1] = text]

\* indirect addressing that follows the pointer chain one cell further
get_address_chained(mem, addr_str, indirect) ==
    LET addr == parse_i64(addr_str)
    IN IF ~addr.ok THEN [outcome |-> "MalformedAddress", val |-> Zero]
       ELSE IF indirect
       THEN IF ~check_bounds(mem, addr.val)
            THEN [outcome |-> "OutOfBounds", val |-> Zero]
            ELSE LET value == parse_i64(Cell(mem, addr.val))
                 IN IF ~value.ok
                    THEN [outcome |-> "MalformedIndirectTarget", val |-> Zero]
                    ELSE IF ~check_bounds(mem, value.val)
                    THEN [outcome |-> "OutOfBounds", val |-> Zero]
                    ELSE LET second == parse_i64(Cell(mem, value.val))
                         IN IF ~second.ok
                            THEN [outcome |-> "MalformedIndirectTarget", val |-> Zero]
                            ELSE [outcome |-> "ok", val |-> second.val]
       ELSE [outcome |-> "ok", val |-> addr.val]

\* a resolution that reads the pointer cell as leniently as a value read
get_address_lenient(mem, addr_str, indirect) ==
    LET addr == parse_i64(addr_str)
    IN IF ~addr.ok THEN [outcome |-> "MalformedAddress", val |-> Zero]
       ELSE IF indirect
       THEN IF ~check_bounds(mem, addr.val)
            THEN [outcome |-> "OutOfBounds", val |-> Zero]
            ELSE LET value == parse_i64(Cell(mem, addr.val))
                 IN [outcome |-> "ok", val |-> IF value.ok THEN value.val ELSE Zero]
       ELSE [outcome |-> "ok", val |-> addr.val]

get_address(mem, addr_str, indirect) ==
    LET addr == parse_i64(addr_str)
    IN IF ~addr.ok THEN [outcome |-> "MalformedAddress", val |-> Zero]
       ELSE IF indirect
       THEN IF ~check_bounds(mem, addr.val)
            THEN [outcome |-> "OutOfBounds", val |-> Zero]
            ELSE LET value == parse_i64(Cell(mem, addr.val))
                 IN IF ~value.ok
                    THEN [outcome |-> "MalformedIndirectTarget", val |-> Zero]
                    ELSE [outcome |-> "ok", val |-> value.val]
       ELSE [outcome |-> "ok", val |-> addr.val]

\* a + 1 on i64: at i64::MAX the build decides, a panic with overflow checks
\* (the debug profile) and a wrap to i64::MIN without (the release profile)
add_one(v, checks) ==
    IF v = I64Max
    THEN IF checks THEN [ok |-> FALSE, val |-> Zero] ELSE [ok |-> TRUE, val |-> I64Min]
    ELSE [ok |-> TRUE, val |-> Succ1(v)]

\* a - 1 on i64, likewise at i64::MIN
sub_one(v, checks) ==
    IF v = I64Min
    THEN IF checks THEN [ok |-> FALSE, val |-> Zero] ELSE [ok |-> TRUE, val |-> I64Max]
    ELSE [ok |-> TRUE, val |-> Pred1(v)]

\* the value read with the default 1 in place of 0
parse_or_one(text) ==
    LET r == parse_i64(text) IN IF r.ok THEN r.val ELSE I64(FALSE, <<1>>)

\* str::parse::<i64>().unwrap_or(0)
parse_or_zero(text) ==
    LET r == parse_i64(text) IN IF r.ok THEN r.val ELSE Zero

Result(outcome, p, mem) == [outcome |-> outcome, pc |-> p, memory |-> mem]

\* the Exit arm advancing pc like the other arms
exec_Exit_advances(p, mem) == Result("false", Succ1(p), mem)

\* the Exit arm
exec_Exit(p, mem) == Result("false", p, mem)

\* the Succ arm from the read of the target cell on
increment(p, mem, target_addr, checks) ==
    LET current_val == parse_or_zero(Cell(mem, target_addr))
        sum == add_one(current_val, checks)
    IN IF ~sum.ok THEN Result("Overflow", p, mem)
       ELSE LET mem2 == Store(mem, target_addr, to_string(sum.val))
                next == add_one(p, checks)
            IN IF ~next.ok THEN Result("Overflow", p, mem2)
               ELSE Result("true", next.val, mem2)

\* the Succ arm
exec_Succ(p, mem, target, indirect, checks) ==
    LET target_addr == get_address(mem, target, indirect)
    IN IF target_addr.outcome # "ok" THEN Result(target_addr.outcome, p, mem)
       ELSE IF ~check_bounds(mem, target_addr.val) THEN Result("OutOfBounds", p, mem)
       ELSE increment(p, mem, target_addr.val, checks)

\* the branch assigning pc before it bounds-checks the jump address
jump_taken_assign_first(p, mem, jump, jump_indirect) ==
    LET jump_addr == get_address(mem, jump, jump_indirect)
    IN IF jump_addr.outcome # "ok" THEN Result(jump_addr.outcome, p, mem)
       ELSE IF ~check_bounds(mem, jump_addr.val)
       THEN Result("OutOfBounds", jump_addr.val, mem)
       ELSE Result("true", jump_addr.val, mem)

\* the branch followed by the fall-through increment of pc
jump_taken_falls_through(p, mem, jump, jump_indirect) ==
    LET jump_addr == get_address(mem, jump, jump_indirect)
    IN IF jump_addr.outcome # "ok" THEN Result(jump_addr.outcome, p, mem)
       ELSE IF ~check_bounds(mem, jump_addr.val) THEN Result("OutOfBounds", p, mem)
       ELSE Result("true", Succ1(jump_addr.val), mem)

\* the branch without the bounds check of the jump address
jump_taken_unchecked(p, mem, jump, jump_indirect) ==
    LET jump_addr == get_address(mem, jump, jump_indirect)
    IN IF jump_addr.outcome # "ok" THEN Result(jump_addr.outcome, p, mem)
       ELSE Result("true", jump_addr.val, mem)

\* the BeqzPred arm when test_val == 0
jump_taken(p, mem, jump, jump_indirect) ==
    LET jump_addr == get_address(mem, jump, jump_indirect)
    IN IF jump_addr.outcome # "ok" THEN Result(jump_addr.outcome, p, mem)
       ELSE IF ~check_bounds(mem, jump_addr.val) THEN Result("OutOfBounds", p, mem)
       ELSE Result("true", jump_addr.val, mem)

\* the BeqzPred arm when test_val != 0
decrement(p, mem, test_addr, test_val, checks) ==
    LET diff == sub_one(test_val, checks)
    IN IF ~diff.ok THEN Result("Overflow", p, mem)
       ELSE LET mem2 == Store(mem, test_addr, to_string(diff.val))
                next == add_one(p, checks)
            IN IF ~next.ok THEN Result("Overflow", p, mem2)
               ELSE Result("true", next.val, mem2)

\* the BeqzPred arm
exec_BeqzPred(p, mem, test, test_indirect, jump, jump_indirect, checks) ==
    LET test_addr == get_address(mem, test, test_indirect)
    IN IF test_addr.outcome # "ok" THEN Result(test_addr.outcome, p, mem)
       ELSE IF ~check_bounds(mem, test_addr.val) THEN Result("OutOfBounds", p, mem)
       ELSE LET test_val == parse_or_zero(Cell(mem, test_addr.val))
            IN IF test_val = Zero
               THEN jump_taken(p, mem, jump, jump_indirect)
               ELSE decrement(p, mem, test_addr.val, test_val, checks)

\* a fetch that serves the text the cell held when the file was loaded
fetch_cached(mem, p) == Cell(image, p)

\* execute_instruction: the instruction text is read from memory[pc]
fetch(mem, p) == Cell(mem, p)

execute_instruction(p, mem, checks) ==
    IF ~check_bounds(mem, p) THEN Result("OutOfBounds", p, mem)
    ELSE LET instruction_str == fetch(mem, p)
             instruction == parse(instruction_str)
         IN CASE instruction.tag = "None" ->
                   IF parse_i64(instruction_str).ok
                   THEN Result("ExecutingData", p, mem)
                   ELSE Result("InvalidInstruction", p, mem)
              [] instruction.tag = "Exit" -> exec_Exit(p, mem)
              [] instruction.tag = "Succ" ->
                   exec_Succ(p, mem, instruction.target, instruction.indirect, checks)
              [] instruction.tag = "BeqzPred" ->
                   exec_BeqzPred(p, mem, instruction.test, instruction.test_indirect,
                                 instruction.jump, instruction.jump_indirect, checks)

IsPanic(outcome) == outcome \notin {"true", "false", "none"}

(***************************************************************************)
(* Memory images.  A loaded cell is a trimmed, non-blank line.             *)
(***************************************************************************)
SP == <<" ">>
Direct(lit) == <<"$">> \o lit
Indirect(lit) == <<"&">> \o lit
succ_text(op) == W_succ \o SP \o op
beqz_pred_text(op1, op2) == W_beqz_pred \o SP \o op1 \o SP \o op2

\* the cell texts every memory image is drawn from: an instruction of each
\* opcode working on cell 2, and a counter
CoreCells ==
    { succ_text(Indirect(<<"2">>)),
      beqz_pred_text(Direct(<<"2">>), Direct(<<"0">>)),
      <<"1">> }

\* further cell texts: the other addressing modes, addresses out of bounds,
\* malformed operands, wrong arity, other data, the ends of the i64 range
EdgeCells ==
    { W_exit,
      W_exit \o SP \o <<"x">>,
      succ_text(Direct(<<"1">>)),
      succ_text(Direct(<<"-", "1">>)),
      succ_text(Direct(<<"9">>)),
      succ_text(Indirect(<<"9">>)),
      succ_text(Indirect(<<"0">>)),
      succ_text(Direct(<<"x">>)),
      succ_text(Direct(<<>>)),
      succ_text(Indirect(<<"&", "2">>)),
      succ_text(Direct(<<"1">>)) \o SP \o <<"x">>,
      W_succ \o <<"\t">> \o Direct(<<"1">>),
      W_succ,
      succ_text(<<"1">>),
      beqz_pred_text(Indirect(<<"2">>), Indirect(<<"2">>)),
      beqz_pred_text(Direct(<<"2">>), Direct(<<"9">>)),
      beqz_pred_text(Direct(<<"2">>), Indirect(<<"9">>)),
      beqz_pred_text(Direct(<<"2">>), Direct(<<"x">>)),
      beqz_pred_text(Direct(<<"2">>), Indirect(<<"0">>)),
      beqz_pred_text(Direct(<<"9">>), Direct(<<"0">>)),
      beqz_pred_text(Direct(<<"2">>), Direct(<<"0">>)) \o SP \o <<"x">>,
      W_beqz_pred \o SP \o Direct(<<"2">>),
      beqz_pred_text(Direct(<<"2">>), <<"0">>),
      <<"0">>, <<"2">>, <<"9">>, <<"-", "1">>, <<"+", "1">>, <<"0", "1">>,
      <<"-">>, <<"x">>,
      to_string(I64Max), to_string(I64Min),
      to_string(I64Max) \o <<"0">> }

Cells == CoreCells \cup EdgeCells

\* the images with at most one cell that is not a core cell
CoreImages == [1..MemLen -> CoreCells]

Images ==
    CoreImages
        \cup {[m EXCEPT ![k] = e] : m \in CoreImages, k \in 1..MemLen, e \in EdgeCells}

(***************************************************************************)
(* The process: main's prompt loop and run_steps' for loop.                *)
(*   mode   "prompt" (main reads a line), "run_steps" (inside the loop of  *)
(*          run_steps), "panicked" or "exited" (the process has ended)     *)
(*   steps  the argument of the current or last run_steps call             *)
(*   i      the iterations of its loop that have been started              *)
(*   runs   the calls of run_steps so far                                  *)
(*   last   the last call of execute_instruction: the pc and memory it     *)
(*          started from, how it ended, and how the call before it ended   *)
(*          (a record of the calls, not program state)                     *)
(*   image  the memory as load_memory_from_file returned it (a record of   *)
(*          the load, not program state)                                   *)
(***************************************************************************)
\* the initial pc: below memory, the first two cells, the last cell, and
\* just past memory
InitPcs == {FromInt(k) : k \in {-1, 0, 1, MemLen - 1, MemLen}}

Init ==
    /\ pc \in InitPcs
    /\ memory \in Images
    /\ overflow_checks \in BOOLEAN
    /\ mode = "prompt"
    /\ steps = 0
    /\ i = 0
    /\ runs = 0
    /\ last = [outcome |-> "none", pc |-> pc, memory |-> memory, before |-> "none"]
    /\ image = memory

\* main: a line that parses as a positive usize starts run_steps
ReadSteps ==
    /\ mode = "prompt"
    /\ runs < MaxRuns
    /\ \E n \in 1..MaxSteps :
          /\ steps' = n
          /\ i' = 0
          /\ mode' = "run_steps"
    /\ runs' = runs + 1
    /\ UNCHANGED <<pc, memory, overflow_checks, last, image>>

\* main: "0" or a line that is no number is reported and the prompt repeats
ReadRejected ==
    /\ mode = "prompt"
    /\ UNCHANGED vars

\* main: "q" or "quit" leaves the loop and main returns
ReadQuit ==
    /\ mode = "prompt"
    /\ mode' = "exited"
    /\ UNCHANGED <<pc, memory, overflow_checks, steps, i, runs, last, image>>

\* a loop that does not look at what execute_instruction returned
Iterate_ignores_false ==
    /\ mode = "run_steps"
    /\ \E r \in {execute_instruction(pc, memory, overflow_checks)} :
          /\ pc' = r.pc
          /\ memory' = r.memory
          /\ last' = [outcome |-> r.outcome, pc |-> pc, memory |-> memory,
                       before |-> last.outcome]
          /\ i' = i + 1
          /\ mode' = IF IsPanic(r.outcome) THEN "panicked"
                     ELSE IF i + 1 = steps THEN "prompt"
                     ELSE "run_steps"
    /\ UNCHANGED <<overflow_checks, steps, runs, image>>

\* run_steps: one iteration of the loop, and the return when it is the last
Iterate ==
    /\ mode = "run_steps"
    /\ \E r \in {execute_instruction(pc, memory, overflow_checks)} :
          /\ pc' = r.pc
          /\ memory' = r.memory
          /\ last' = [outcome |-> r.outcome, pc |-> pc, memory |-> memory,
                       before |-> last.outcome]
          /\ i' = i + 1
          /\ mode' = IF IsPanic(r.outcome) THEN "panicked"
                     ELSE IF r.outcome = "false" THEN "prompt"
                     ELSE IF i + 1 = steps THEN "prompt"
                     ELSE "run_steps"
    /\ UNCHANGED <<overflow_checks, steps, runs, image>>

Next == ReadSteps \/ ReadRejected \/ ReadQuit \/ Iterate

Spec == Init /\ [][Next]_vars

(***************************************************************************)
(* Vocabulary of the properties.  They are stated on the record of the     *)
(* last call of execute_instruction: the state it started from is          *)
(* last.pc, last.memory and the state it left is pc, memory.               *)
(***************************************************************************)
\* an address outside [0, memory length)
Outside(mem, v) == v.neg \/ ~MagLess(v.mag, NatToMag(Len(mem)))

\* the 1-based index in the model of the cell at address v
Idx(v) == MagToNat(v.mag) + 1

\* a step has run and fetched a cell
Fetched == last.outcome # "none" /\ ~Outside(last.memory, last.pc)

FetchedText == last.memory[Idx(last.pc)]

Decoded == parse(FetchedText)

Unchanged == pc = last.pc /\ memory = last.memory

\* the cells the step changed
ChangedCells == {k \in 1..Len(memory) : memory[k] # last.memory[k]}

\* what an operand stands for: its literal read as an integer and, when
\* indirect, the integer held by the cell the literal addresses.  Operand
\* gives [ok, val]: whether the operand resolves, and the address
Operand(mem, lit, ind) ==
    LET l == parse_i64(lit)
    IN IF ~l.ok \/ ~ind THEN l
       ELSE IF Outside(mem, l.val) THEN [ok |-> FALSE, val |-> Zero]
       ELSE parse_i64(mem[Idx(l.val)])

\* the operand resolves and the address it resolves to is in bounds
ResolvesInside(mem, lit, ind) ==
    \E r \in {Operand(mem, lit, ind)} : r.ok /\ ~Outside(mem, r.val)

Address(mem, lit, ind) == Operand(mem, lit, ind).val

\* some address of the operand, the pointer or the address obtained, is
\* out of bounds
OperandOutside(mem, lit, ind) ==
    \E l \in {parse_i64(lit)} :
       /\ l.ok
       /\ \/ Outside(mem, l.val)
          \/ ind /\ \E r \in {parse_i64(mem[Idx(l.val)])} : r.ok /\ Outside(mem, r.val)

\* the integer a Succ or BeqzPred reads from a cell
ValueAt(mem, a) ==
    LET r == parse_i64(mem[Idx(a)]) IN IF r.ok THEN r.val ELSE Zero

UnchangedOutOfBounds == last.outcome = "OutOfBounds" /\ Unchanged

TestsZero(d) ==
    \E t \in {Operand(last.memory, d.test, d.test_indirect)} :
       t.ok /\ ~Outside(last.memory, t.val) /\ ValueAt(last.memory, t.val) = Zero

C2_StepAtomic ==
    /\ IsPanic(last.outcome) => Unchanged
    /\ last.outcome = "false" => Unchanged
    /\ last.outcome = "true" =>
          \E d \in {Decoded} :
             \/ ChangedCells = {} /\ d.tag = "BeqzPred" /\ TestsZero(d)
             \/ /\ Cardinality(ChangedCells) = 1
                /\ pc = Succ1(last.pc)
                /\ d.tag = "Succ" \/ (d.tag = "BeqzPred" /\ ~TestsZero(d))

\* steps of both kinds have run: one that wrote a cell, then one that ended
\* in a fatal error
C2_Witness ==
    /\ IsPanic(last.outcome)
    /\ Fetched
    /\ i >= 2
    /\ \E k \in 1..MemLen : parse_i64(memory[k]).ok /\ memory[k] \notin Cells

(***************************************************************************)
(* C3: when the cell at pc decodes to Exit, the step returns false and     *)
(* leaves pc and every memory cell unchanged.                              *)
(***************************************************************************)
C3_ExitHalts ==
    (Fetched /\ Decoded.tag = "Exit") => (last.outcome = "false" /\ Unchanged)

\* an Exit fetched after an earlier step of the same run_steps call
C3_Witness ==
    Fetched /\ Decoded.tag = "Exit" /\ i >= 2 /\ mode = "prompt"

\* the operand of d that Succ increments, or BeqzPred tests, resolves in
\* bounds to address a
Targets(d, a) ==
    \E t \in {IF d.tag = "Succ"
              THEN Operand(last.memory, d.target, d.indirect)
              ELSE Operand(last.memory, d.test, d.test_indirect)} :
       t.ok /\ ~Outside(last.memory, t.val) /\ a = t.val

\* the addresses the operand of d can resolve to (at most one)
TargetSet(d) == {a \in {FromInt(k) : k \in 0..(Len(last.memory) - 1)} : Targets(d, a)}

HoldsInteger(mem, a) == parse_i64(mem[Idx(a)]).ok

(***************************************************************************)
(* C4 as stated: when the fetched cell decodes to Succ and its operand     *)
(* resolves to an in-bounds address a whose cell holds integer text v, the *)
(* step writes the decimal text of v+1 to cell a, sets pc to pc+1, returns *)
(* true and leaves every other cell unchanged.  Refuted at v = i64::MAX.   *)
(***************************************************************************)
C4_SuccIncrements ==
    Fetched => \A d \in {Decoded} : d.tag = "Succ" =>
        \A a \in TargetSet(d) : HoldsInteger(last.memory, a) =>
            /\ last.outcome = "true"
            /\ pc = Succ1(last.pc)
            /\ memory = [last.memory EXCEPT
                           ![Idx(a)] = to_string(Succ1(ValueAt(last.memory, a)))]

(***************************************************************************)
(* C5: lenient value read.  When the cell targeted by Succ does not parse  *)
(* as an integer, the step writes "1" to it, advances pc by one and        *)
(* returns true.  When the cell tested by BeqzPred does not parse as an    *)
(* integer, no cell changes and the zero branch is taken: pc becomes the   *)
(* jump address when the jump operand resolves in bounds, and otherwise    *)
(* the step ends in the fatal error of the jump operand.                   *)
(***************************************************************************)
C5_LenientRead ==
    Fetched => \A d \in {Decoded} : d.tag \in {"Succ", "BeqzPred"} =>
        \A a \in TargetSet(d) : ~HoldsInteger(last.memory, a) =>
            IF d.tag = "Succ"
            THEN /\ last.outcome = "true"
                 /\ pc = Succ1(last.pc)
                 /\ memory = [last.memory EXCEPT ![Idx(a)] = <<"1">>]
            ELSE /\ memory = last.memory
                 /\ IF ResolvesInside(last.memory, d.jump, d.jump_indirect)
                    THEN /\ last.outcome = "true"
                         /\ pc = Address(last.memory, d.jump, d.jump_indirect)
                    ELSE /\ last.outcome \in {"OutOfBounds", "MalformedAddress",
                                              "MalformedIndirectTarget"}
                         /\ pc = last.pc

\* a Succ has just turned a cell holding instruction text into "1"
C5_Witness ==
    /\ Fetched
    /\ last.outcome = "true"
    /\ \E d \in {Decoded} :
          /\ d.tag = "Succ"
          /\ \E a \in TargetSet(d) :
                /\ parse(last.memory[Idx(a)]).tag # "None"
                /\ memory[Idx(a)] = <<"1">>

(***************************************************************************)
(* C6: branch taken.  When the fetched cell decodes to BeqzPred, its test  *)
(* operand resolves in bounds to a cell whose value is 0 and its jump      *)
(* operand resolves to an in-bounds address j, the step sets pc to j,      *)
(* returns true and leaves every memory cell unchanged.                    *)
(***************************************************************************)
C6_BranchTaken ==
    Fetched => \A d \in {Decoded} :
        (/\ d.tag = "BeqzPred"
         /\ TestsZero(d)
         /\ ResolvesInside(last.memory, d.jump, d.jump_indirect))
        => /\ last.outcome = "true"
           /\ pc = Address(last.memory, d.jump, d.jump_indirect)
           /\ memory = last.memory

\* a branch taken on a cell holding the text "0", to an address other than
\* the next cell
C6_Witness ==
    /\ Fetched
    /\ last.outcome = "true"
    /\ pc # Succ1(last.pc)
    /\ \E d \in {Decoded} :
          /\ d.tag = "BeqzPred"
          /\ \E a \in TargetSet(d) : last.memory[Idx(a)] = <<"0">>

(***************************************************************************)
(* C7 as stated: when the fetched cell decodes to BeqzPred and its test    *)
(* operand resolves to an in-bounds address t whose cell holds an integer  *)
(* v # 0, the step writes the decimal text of v-1 to cell t, sets pc to    *)
(* pc+1, returns true and leaves every other cell unchanged.  Refuted at   *)
(* v = i64::MIN.                                                           *)
(***************************************************************************)
C7_BranchNotTaken ==
    Fetched => \A d \in {Decoded} : d.tag = "BeqzPred" =>
        \A a \in TargetSet(d) :
            (HoldsInteger(last.memory, a) /\ ValueAt(last.memory, a) # Zero) =>
                /\ last.outcome = "true"
                /\ pc = Succ1(last.pc)
                /\ memory = [last.memory EXCEPT
                               ![Idx(a)] = to_string(Pred1(ValueAt(last.memory, a)))]

(***************************************************************************)
(* C8: indirect addressing dereferences exactly once.  In a step that      *)
(* returns true, the cell Succ rewrites, the cell the decrement path       *)
(* rewrites and the pc the branch path sets are: for a direct operand      *)
(* with literal p, the address p itself; for an indirect operand with      *)
(* literal p, the integer stored in cell p.  No other cell changes, so     *)
(* the pointer cell is unchanged unless it is itself the target.           *)
(***************************************************************************)
Once(mem, lit, ind) ==
    IF ind THEN parse_i64(mem[Idx(parse_i64(lit).val)]).val ELSE parse_i64(lit).val

C8_DereferencesOnce ==
    (Fetched /\ last.outcome = "true") => \A d \in {Decoded} :
        /\ d.tag = "Succ" =>
              /\ ResolvesInside(last.memory, d.target, d.indirect)
              /\ ChangedCells = {Idx(Once(last.memory, d.target, d.indirect))}
        /\ d.tag = "BeqzPred" =>
              /\ ResolvesInside(last.memory, d.test, d.test_indirect)
              /\ \/ ChangedCells = {Idx(Once(last.memory, d.test, d.test_indirect))}
                 \/ /\ ChangedCells = {}
                    /\ ResolvesInside(last.memory, d.jump, d.jump_indirect)
                    /\ pc = Once(last.memory, d.jump, d.jump_indirect)

\* a Succ through a pointer cell p holding a, where cell a holds the
\* in-bounds address of a third cell: cell a was incremented, cell p and
\* the third cell were not
C8_Witness ==
    /\ Fetched
    /\ last.outcome = "true"
    /\ \E d \in {Decoded} :
          /\ d.tag = "Succ"
          /\ d.indirect
          /\ \E p \in {parse_i64(d.target).val} :
             \E a \in {parse_i64(last.memory[Idx(p)]).val} :
             \E b \in {parse_i64(last.memory[Idx(a)])} :
                /\ b.ok /\ ~Outside(last.memory, b.val)
                /\ Cardinality({p, a, b.val}) = 3
                /\ ChangedCells = {Idx(a)}

\* a text of digits with an optional sign
OnlyDigits(text) ==
    /\ text # <<>>
    /\ \E body \in {IF Head(text) \in {"+", "-"} THEN Tail(text) ELSE text} :
          body # <<>> /\ \A k \in 1..Len(body) : IsDigitChar(body[k])

\* an operand token of the grammar: a sigil, then an integer literal
IsOperand(tok) == tok # <<>> /\ Head(tok) \in {"&", "$"} /\ OnlyDigits(Tail(tok))

\* the instruction grammar: exit | succ <operand> | beqz-pred <operand> <operand>
MatchesGrammar(text) ==
    \E toks \in {split_whitespace(text)} :
       \/ toks = <<W_exit>>
       \/ Len(toks) = 2 /\ toks[1] = W_succ /\ IsOperand(toks[2])
       \/ Len(toks) = 3 /\ toks[1] = W_beqz_pred /\ IsOperand(toks[2]) /\ IsOperand(toks[3])

(***************************************************************************)
(* C9 as stated: for every in-bounds pc, a cell of digits with an optional *)
(* sign makes the step raise ExecutingData, and a cell that neither        *)
(* matches the instruction grammar nor is a bare integer makes it raise    *)
(* InvalidInstruction; in both cases pc and memory are unchanged.          *)
(* Refuted: the decoder accepts texts outside the grammar, and a digit     *)
(* string beyond the i64 range is reported as InvalidInstruction.          *)
(***************************************************************************)
C9_FetchClassification ==
    Fetched => \A t \in {FetchedText} :
        /\ OnlyDigits(t) => (last.outcome = "ExecutingData" /\ Unchanged)
        /\ (~MatchesGrammar(t) /\ ~OnlyDigits(t))
           => (last.outcome = "InvalidInstruction" /\ Unchanged)

\* the number of tokens is not the one the keyword takes
WrongArity(toks) ==
    /\ toks # <<>>
    /\ \/ toks[1] = W_exit /\ Len(toks) # 1
       \/ toks[1] = W_succ /\ Len(toks) # 2
       \/ toks[1] = W_beqz_pred /\ Len(toks) # 3

(***************************************************************************)
(* C10 as stated: a cell decodes to Exit only if it is the single token    *)
(* exit, to Succ only if it is succ and exactly one more token, to         *)
(* BeqzPred only if it is beqz-pred and exactly two more tokens; a step    *)
(* that fetches a cell with missing or extra tokens raises                 *)
(* InvalidInstruction and changes nothing.  Refuted: the decoder ignores   *)
(* the tokens after the operands.                                          *)
(***************************************************************************)
C10_WrongArityRejected ==
    Fetched => \A toks \in {split_whitespace(FetchedText)} :
        /\ Decoded.tag = "Exit" => Len(toks) = 1
        /\ Decoded.tag = "Succ" => Len(toks) = 2
        /\ Decoded.tag = "BeqzPred" => Len(toks) = 3
        /\ WrongArity(toks) => (last.outcome = "InvalidInstruction" /\ Unchanged)

\* the operand tokens of a cell that starts with succ or beqz-pred and has
\* the number of tokens the keyword takes
OperandTokens(toks) ==
    IF Len(toks) = 2 /\ toks[1] = W_succ THEN {toks[2]}
    ELSE IF Len(toks) = 3 /\ toks[1] = W_beqz_pred THEN {toks[2], toks[3]}
    ELSE {}

(***************************************************************************)
(* C11 as stated: a cell decodes to Succ or BeqzPred only if each operand  *)
(* token is a sigil immediately followed by a base-10 integer literal; a   *)
(* step that fetches a cell with an operand token that has no sigil, a     *)
(* suffix that is no integer, or a second sigil raises InvalidInstruction  *)
(* and changes nothing.  Refuted: the decoder looks at the first character *)
(* of the token only.                                                      *)
(***************************************************************************)
C11_MalformedOperandRejected ==
    Fetched => \A toks \in {split_whitespace(FetchedText)} :
        (\E tok \in OperandTokens(toks) : ~IsOperand(tok))
        => /\ Decoded.tag = "None"
           /\ last.outcome = "InvalidInstruction"
           /\ Unchanged

(***************************************************************************)
(* C12: run_steps(n) calls execute_instruction at most n times and stops   *)
(* at the first call that returns false.  While the loop runs fewer than n *)
(* calls have been made and every one of them returned true; when          *)
(* run_steps has returned, either the last call returned false (the k-th,  *)
(* k <= n, and no call follows it) or n calls were made and all returned   *)
(* true.  The loop counter bounds the calls whatever the program does.     *)
(***************************************************************************)
C12_RunStepsBounded ==
    /\ i <= steps
    /\ mode = "run_steps" => /\ i < steps
                             /\ i > 0 => last.outcome = "true"
    /\ (mode = "prompt" /\ runs > 0)
       => \/ last.outcome = "false" /\ 1 <= i
          \/ last.outcome = "true" /\ i = steps
    /\ mode = "panicked" => IsPanic(last.outcome)

\* run_steps(n) has returned after k steps, 1 < k < n: step k met an Exit
C12_Witness ==
    /\ mode = "prompt"
    /\ last.outcome = "false"
    /\ 1 < i /\ i < steps

\* the text the fetched cell held when the memory was loaded
LoadedText == image[Idx(last.pc)]

(***************************************************************************)
(* C13: the instruction a step executes is the decoding of the text that   *)
(* cell pc holds when the step fetches it.  A text that decodes to no      *)
(* instruction ends the step in ExecutingData or InvalidInstruction with   *)
(* nothing changed, Exit makes it return false, and only a text that       *)
(* decodes to Succ or BeqzPred is executed as one.  When an earlier step   *)
(* has overwritten the cell, the step treats the overwritten text, an      *)
(* integer, as data, whatever the cell held at load time.                  *)
(***************************************************************************)
C13_NoInstructionCaching ==
    Fetched => \A d \in {Decoded} :
        /\ d.tag = "None"
           => /\ last.outcome \in {"ExecutingData", "InvalidInstruction"}
              /\ last.outcome = "ExecutingData" <=> parse_i64(FetchedText).ok
              /\ Unchanged
        /\ d.tag = "Exit" => last.outcome = "false"
        /\ d.tag \in {"Succ", "BeqzPred"}
           => last.outcome \notin {"ExecutingData", "InvalidInstruction", "false"}
        /\ FetchedText # LoadedText => last.outcome = "ExecutingData"

\* the step fetched a cell that was loaded as an instruction and has been
\* overwritten by the step before it, and treated it as data
C13_Witness ==
    /\ Fetched
    /\ FetchedText # LoadedText
    /\ parse(LoadedText).tag # "None"
    /\ last.before = "true"
    /\ last.outcome = "ExecutingData"

(***************************************************************************)
(* C14: the number of memory cells never changes: in every state, after    *)
(* steps that continued, halted or ended in a fatal error, memory has as   *)
(* many cells as the image it was constructed from.                        *)
(***************************************************************************)
C14_MemoryLengthFixed ==
    /\ Len(memory) = Len(image)
    /\ Len(last.memory) = Len(image)

\* the process has ended in a fatal error in its second run_steps call,
\* after steps that wrote to memory
C14_Witness ==
    /\ mode = "panicked"
    /\ runs > 1
    /\ memory # image

\* 0 <= v <= memory length
UpToLength(mem, v) == ~v.neg /\ ~MagLess(NatToMag(Len(mem)), v.mag)

(***************************************************************************)
(* C15: a step whose pc is outside [0, memory length) ends in OutOfBounds  *)
(* before it fetches, so every fetch happens with 0 <= pc < memory length; *)
(* after every step that returns true or false, 0 <= pc <= memory length;  *)
(* pc equals the memory length only after a Succ or a BeqzPred decrement   *)
(* in the last cell advanced it, and the step that follows ends in         *)
(* OutOfBounds.                                                            *)
(***************************************************************************)
C15_PcRange ==
    /\ (last.outcome # "none" /\ Outside(last.memory, last.pc))
       => UnchangedOutOfBounds
    /\ last.outcome \in {"true", "false"}
       => /\ ~Outside(last.memory, last.pc)
          /\ UpToLength(memory, pc)
          /\ pc = FromInt(Len(memory))
             => /\ last.outcome = "true"
                /\ last.pc = FromInt(Len(memory) - 1)
                /\ ChangedCells # {}
                /\ \A d \in {Decoded} :
                      \/ d.tag = "Succ"
                      \/ d.tag = "BeqzPred" /\ ~TestsZero(d)

\* the step before fell through from the last cell, and this step found pc
\* at the memory length and ended in OutOfBounds
C15_Witness ==
    /\ last.before = "true"
    /\ last.pc = FromInt(Len(last.memory))
    /\ last.outcome = "OutOfBounds"
    /\ Unchanged

\* how the resolution of an operand ends: "ok" when it yields an in-bounds
\* address, and otherwise the fatal error of its first failing check, in
\* the order literal, pointer bounds, pointer cell, address bounds
OperandError(mem, lit, ind) ==
    LET l == parse_i64(lit)
        r == parse_i64(mem[Idx(l.val)])
    IN IF ~l.ok THEN "MalformedAddress"
       ELSE IF Outside(mem, l.val) THEN "OutOfBounds"
       ELSE IF ~ind THEN "ok"
       ELSE IF ~r.ok THEN "MalformedIndirectTarget"
       ELSE IF Outside(mem, r.val) THEN "OutOfBounds"
       ELSE "ok"

(***************************************************************************)
(* C16 as stated: in a step that executes BeqzPred, when the test operand  *)
(* resolves in bounds to a cell holding an integer v # 0, the decrement    *)
(* path completes whatever the jump operand is: the step returns true,     *)
(* the tested cell and no other receives the decimal text of v-1, and pc   *)
(* becomes pc+1; and when the test operand does not resolve in bounds the  *)
(* step ends in the test operand's fatal error, the jump operand not       *)
(* having been looked at.  Refuted at v = i64::MIN, where the decrement    *)
(* does not complete.                                                      *)
(***************************************************************************)
C16_JumpOperandUnresolved ==
    Fetched => \A d \in {Decoded} : d.tag = "BeqzPred" =>
        \A e \in {OperandError(last.memory, d.test, d.test_indirect)} :
           IF e # "ok" THEN last.outcome = e /\ Unchanged
           ELSE \A a \in {Address(last.memory, d.test, d.test_indirect)} :
                   ValueAt(last.memory, a) # Zero
                   => /\ last.outcome = "true"
                      /\ pc = Succ1(last.pc)
                      /\ ChangedCells = {Idx(a)}
                      /\ memory[Idx(a)] = to_string(Pred1(ValueAt(last.memory, a)))

\* the fatal errors of the indirect arm of address resolution
StrictErrors == {"OutOfBounds", "MalformedIndirectTarget"}

(***************************************************************************)
(* C17: address resolution is strict.  For every operand a step resolves   *)
(* (the Succ operand, the BeqzPred test operand, and the BeqzPred jump     *)
(* operand when the tested value is zero): if it is indirect and its       *)
(* pointer literal is out of bounds the step ends in OutOfBounds, the      *)
(* pointer cell not having been read (as it does when the address in the   *)
(* pointer cell is out of bounds); if the pointer cell holds text that is  *)
(* no integer, instruction text included, the step ends in                 *)
(* MalformedIndirectTarget; pc and memory are unchanged in both cases.     *)
(***************************************************************************)
C17_StrictResolution ==
    Fetched => \A d \in {Decoded} :
        /\ (d.tag = "Succ" /\ d.indirect)
           => \A e \in {OperandError(last.memory, d.target, d.indirect)} :
                 e \in StrictErrors => (last.outcome = e /\ Unchanged)
        /\ (d.tag = "BeqzPred" /\ d.test_indirect)
           => \A e \in {OperandError(last.memory, d.test, d.test_indirect)} :
                 e \in StrictErrors => (last.outcome = e /\ Unchanged)
        /\ (d.tag = "BeqzPred" /\ d.jump_indirect)
           => \A e \in {OperandError(last.memory, d.jump, d.jump_indirect)} :
                 (e \in StrictErrors /\ TestsZero(d))
                 => (last.outcome = e /\ Unchanged)

\* a Succ through a pointer cell that holds instruction text, which a value
\* read would have treated as 0, has ended in MalformedIndirectTarget
C17_Witness ==
    /\ Fetched
    /\ last.outcome = "MalformedIndirectTarget"
    /\ Unchanged
    /\ \E d \in {Decoded} :
          /\ d.tag = "Succ" /\ d.indirect
          /\ \E l \in {parse_i64(d.target)} :
                /\ l.ok /\ ~Outside(last.memory, l.val)
                /\ parse(last.memory[Idx(l.val)]).tag # "None"
                /\ parse_or_zero(last.memory[Idx(l.val)]) = Zero

\* the sign of the integer a cell holds: -1, 0 or 1 (0 for other text)
Sign(text) ==
    LET v == parse_i64(text)
    IN IF ~v.ok \/ v.val = Zero THEN 0 ELSE IF v.val.neg THEN -1 ELSE 1

(***************************************************************************)
(* C18 as stated: counter arithmetic does not wrap.  After a step that     *)
(* executes Succ on a cell holding the integer v, i64::MAX included, the   *)
(* cell holds the decimal text of v+1; after a step that executes BeqzPred *)
(* on a cell holding an integer v # 0, i64::MIN included, the cell holds   *)
(* the decimal text of v-1; and no step turns a cell holding i64::MAX into *)
(* one holding a negative number, or a cell holding i64::MIN into one      *)
(* holding a positive number.  Refuted at both limits.                     *)
(***************************************************************************)
C18_NoWrap ==
    Fetched => \A d \in {Decoded} :
        /\ d.tag \in {"Succ", "BeqzPred"} =>
              \A a \in TargetSet(d) : \A v \in {ValueAt(last.memory, a)} :
                 /\ (d.tag = "Succ" /\ HoldsInteger(last.memory, a))
                    => memory[Idx(a)] = to_string(Succ1(v))
                 /\ (d.tag = "BeqzPred" /\ v # Zero)
                    => memory[Idx(a)] = to_string(Pred1(v))
        /\ \A k \in 1..Len(memory) :
              /\ last.memory[k] = to_string(I64Max) => Sign(memory[k]) = 1
              /\ last.memory[k] = to_string(I64Min) => Sign(memory[k]) = -1

(***************************************************************************)
(* C19: halting is stable.  After a step that returned false, pc is in     *)
(* bounds and the cell at pc still decodes to Exit; and the step that      *)
(* follows a step that returned false returns false as well, with pc and   *)
(* memory unchanged, and it is the only step of its run_steps call: the    *)
(* call returns after it, whatever n was.                                  *)
(***************************************************************************)
C19_HaltStable ==
    /\ last.outcome = "false"
       => /\ ~Outside(memory, pc)
          /\ parse(memory[Idx(pc)]).tag = "Exit"
    /\ last.before = "false"
       => /\ last.outcome = "false"
          /\ Unchanged
          /\ mode # "panicked"
          /\ IF mode = "run_steps" THEN i = 0 ELSE i = 1

\* a run_steps(n) with n > 1 on a halted machine has returned after one
\* step, which returned false again
C19_Witness ==
    /\ last.before = "false"
    /\ last.outcome = "false"
    /\ mode = "prompt"
    /\ steps > 1
    /\ i = 1

\* the canonical decimal text of a signed 64-bit integer: digits without a
\* leading zero, preceded by "-" for a negative number, and no "-0"
IsCanonical(text) ==
    /\ text # <<>>
    /\ \E body \in {IF Head(text) = "-" THEN Tail(text) ELSE text} :
          /\ body # <<>>
          /\ \A k \in 1..Len(body) : IsDigitChar(body[k])
          /\ Len(body) > 1 => body[1] # "0"
          /\ Head(text) = "-" => body # <<"0">>
    /\ parse_i64(text).ok

DecodesAsInstruction(text) == parse(text).tag # "None"

(***************************************************************************)
(* C20: self-modification only destroys code.  In every state each cell    *)
(* holds the text it was loaded with or the canonical decimal text of an   *)
(* integer; a cell the last step wrote, and a cell that differs from its   *)
(* loaded text, holds such an integer and does not decode as an            *)
(* instruction.  Hence a cell that decodes as an instruction holds its     *)
(* loaded text and was left alone by the last step: the set of such cells  *)
(* does not grow.                                                          *)
(***************************************************************************)
C20_OnlyDestroysCode ==
    \A k \in 1..Len(memory) :
       /\ memory[k] = image[k] \/ IsCanonical(memory[k])
       /\ (memory[k] # image[k] \/ k \in ChangedCells)
          => /\ IsCanonical(memory[k])
             /\ ~DecodesAsInstruction(memory[k])

\* a cell loaded as an instruction has been overwritten and then written
\* again: it holds an integer other than the first one written
C20_Witness ==
    \E k \in 1..Len(memory) :
       /\ DecodesAsInstruction(image[k])
       /\ k \in ChangedCells
       /\ last.memory[k] # image[k]
       /\ IsCanonical(memory[k])

====
